---- MODULE Spec2Model ----
(***************************************************************************)
(* Model of src/server.js (vinyl backend): the shared access credential,   *)
(* the in-memory result cache, the cached search client and the request    *)
(* handlers that fan out over them.                                        *)
(*                                                                         *)
(* Time is counted in minutes (one unit = 60 000 ms of Date.now()), so the *)
(* 60 s safety margin of line 56 is 1 unit and the 5 * 60 * 1000 ms cache  *)
(* TTL of line 179 is 5 units; expires_in is counted in minutes as well.   *)
(*                                                                         *)
(* Node runs one handler segment at a time: an action of this model is the *)
(* code a handler runs between two awaits.                                 *)
(***************************************************************************)
EXTENDS Integers, Sequences, FiniteSets, TLC

VARIABLES
    now,                    \* Date.now()
    accessToken,            \* line 18
    accessTokenExpiresAt,   \* line 19
    cacheStore,             \* line 84: key -> [val, exp]
    issued,                 \* identity service: tokens it has issued (history)
    caller,                 \* callers of getAccessToken
    lastReturn,             \* what the last getAccessToken call returned
    cacheCall,              \* last setCache/getCache call and what it returned
    lastSet,                \* history: last setCache per key
    req,                    \* the requests being handled, per slot
    filterCall              \* last isVinyl call and what it returned

vars == <<now, accessToken, accessTokenExpiresAt, cacheStore, issued,
          caller, lastReturn, cacheCall, lastSet, req, filterCall>>

----------------------------------------------------------------------------
(* Bounds *)
MaxTime == 6
NumCallers == 2
MaxTokens == 2
NumRequests == 2
MaxQueries == 2
MaxVariants == 3

(* Program constants *)
NoToken == 0
SAFETY_MARGIN == 1
CACHE_TTL == 5

Min(a, b) == IF a < b THEN a ELSE b
Max(a, b) == IF a < b THEN b ELSE a

----------------------------------------------------------------------------
(* TOKEN MANAGEMENT, lines 18-60 *)

\* expires_in values the identity endpoint reports, in minutes
Lifetimes == {1, 5}

\* what the identity endpoint answers: resp.ok, data.access_token present,
\* data.expires_in
IdentityResponses == [ok : BOOLEAN, hasToken : BOOLEAN, expires_in : Lifetimes]

\* line 23: accessToken && now < accessTokenExpiresAt
TokenIsFresh(tok, exp, t) == tok # NoToken /\ t < exp

\* line 50: !resp.ok || !data.access_token
RenewalFailed(resp) == ~resp.ok \/ ~resp.hasToken

\* line 56: now + (data.expires_in - 60) * 1000, now being the time of line 22
NewExpiry(start, expires_in) == start + (expires_in - SAFETY_MARGIN)

\* a renewal that assigns the credential before it looks at the answer
CredentialAfter_AssignFirst(tok, exp, start, resp, newTok) ==
    IF RenewalFailed(resp)
    THEN [token |-> IF resp.hasToken THEN newTok ELSE NoToken,
          expiresAt |-> NewExpiry(start, resp.expires_in), threw |-> TRUE]
    ELSE [token |-> newTok, expiresAt |-> NewExpiry(start, resp.expires_in),
          threw |-> FALSE]

\* lines 48-59: the credential after the identity endpoint answered resp to a
\* call that started at start; newTok is the access_token of the answer
CredentialAfter(tok, exp, start, resp, newTok) ==
    IF RenewalFailed(resp)
    THEN [token |-> tok, expiresAt |-> exp, threw |-> TRUE]
    ELSE [token |-> newTok, expiresAt |-> NewExpiry(start, resp.expires_in),
          threw |-> FALSE]

Callers == 1 .. NumCallers

IdleCaller == [pc |-> "idle", start |-> 0]

NoReturn == [kind |-> "none", tok |-> NoToken, at |-> 0, cached |-> FALSE]

\* lines 22-46: a call of getAccessToken up to its first await
GetAccessTokenCall(p) ==
    /\ caller[p].pc = "idle"
    /\ IF TokenIsFresh(accessToken, accessTokenExpiresAt, now)
       THEN /\ lastReturn' = [kind |-> "token", tok |-> accessToken,
                              at |-> now, cached |-> TRUE]
            /\ UNCHANGED caller
       ELSE /\ caller' = [caller EXCEPT ![p] =
                              [pc |-> "renewing", start |-> now]]
            /\ UNCHANGED lastReturn
    /\ UNCHANGED <<now, accessToken, accessTokenExpiresAt, cacheStore, issued,
                   cacheCall, lastSet, req, filterCall>>

\* lines 39-59: the identity endpoint answers; it issued the token at some
\* time between the request and the answer
RenewalResponse(p) ==
    /\ caller[p].pc = "renewing"
    /\ \E resp \in IdentityResponses, issuedAt \in caller[p].start .. now :
        /\ RenewalFailed(resp) \/ Len(issued) < MaxTokens
        /\ LET newTok == Len(issued) + 1
               c == CredentialAfter(accessToken, accessTokenExpiresAt,
                                    caller[p].start, resp, newTok)
           IN  /\ accessToken' = c.token
               /\ accessTokenExpiresAt' = c.expiresAt
               /\ issued' = IF RenewalFailed(resp)
                            THEN issued
                            ELSE Append(issued, [start |-> caller[p].start,
                                                 at |-> issuedAt,
                                                 life |-> resp.expires_in])
               /\ lastReturn' =
                    IF c.threw
                    THEN [NoReturn EXCEPT !.kind = "threw", !.at = now]
                    ELSE [kind |-> "token", tok |-> c.token, at |-> now,
                          cached |-> FALSE]
    /\ caller' = [caller EXCEPT ![p] = IdleCaller]
    /\ UNCHANGED <<now, cacheStore, cacheCall, lastSet, req, filterCall>>

Advance(d) ==
    /\ now + d <= MaxTime
    /\ now' = now + d
    /\ UNCHANGED <<accessToken, accessTokenExpiresAt, cacheStore, issued,
                   caller, lastReturn, cacheCall, lastSet, req, filterCall>>

\* the clock advances by a minute
Tick == Advance(1)

\* where requests run the clock advances in coarser steps
ClockSteps == {3}
Wait == \E d \in ClockSteps : Advance(d)

----------------------------------------------------------------------------
(* CACHE MEMORY, lines 84-96 *)

Null == [null |-> TRUE]

\* line 86
setCache(store, key, val, ttlMs, t) ==
    [k \in DOMAIN store \cup {key} |->
        IF k = key THEN [val |-> val, exp |-> t + ttlMs] ELSE store[k]]

CacheExpired_OffByOne(c, t) == t > c.exp + 1

\* line 91: Date.now() > c.exp
CacheExpired(c, t) == t > c.exp

\* lines 88-96: what getCache returns, and the store it leaves
getCache(store, key, t) ==
    IF key \notin DOMAIN store
    THEN [ret |-> Null, store |-> store]
    ELSE IF CacheExpired(store[key], t)
         THEN [ret |-> Null,
               store |-> [k \in DOMAIN store \ {key} |-> store[k]]]
         ELSE [ret |-> store[key].val, store |-> store]

HarnessKeys == {<<"EBAY_US", "a", "">>, <<"EBAY_US", "b", "">>}
HarnessVals == {[itemSummaries |-> <<>>], [itemSummaries |-> <<1>>]}
HarnessTtls == {1, CACHE_TTL}

SetCacheCall ==
    \E key \in HarnessKeys, val \in HarnessVals, ttl \in HarnessTtls :
        /\ cacheStore' = setCache(cacheStore, key, val, ttl, now)
        /\ cacheCall' = [op |-> "set", key |-> key, ret |-> Null, at |-> now]
        /\ lastSet' = (key :> [val |-> val, at |-> now, ttl |-> ttl]) @@ lastSet
        /\ UNCHANGED <<now, accessToken, accessTokenExpiresAt, issued, caller,
                       lastReturn, req, filterCall>>

GetCacheCall ==
    \E key \in HarnessKeys :
        LET g == getCache(cacheStore, key, now)
        IN  /\ cacheStore' = g.store
            /\ cacheCall' = [op |-> "get", key |-> key, ret |-> g.ret,
                             at |-> now]
            /\ UNCHANGED <<now, accessToken, accessTokenExpiresAt, issued,
                           caller, lastReturn, lastSet, req, filterCall>>

----------------------------------------------------------------------------
(* Strings are sequences of one-character strings, so that toLowerCase, *)
(* includes, split and trim are computed as the code computes them.     *)

UPPER == <<"A","B","C","D","E","F","G","H","I","J","K","L","M",
           "N","O","P","Q","R","S","T","U","V","W","X","Y","Z">>
LOWER == <<"a","b","c","d","e","f","g","h","i","j","k","l","m",
           "n","o","p","q","r","s","t","u","v","w","x","y","z">>

LowerChar(c) ==
    IF \E i \in 1 .. Len(UPPER) : UPPER[i] = c
    THEN LOWER[CHOOSE i \in 1 .. Len(UPPER) : UPPER[i] = c]
    ELSE c

\* String.prototype.toLowerCase
toLowerCase(s) == [i \in 1 .. Len(s) |-> LowerChar(s[i])]

\* String.prototype.includes
includes(s, w) ==
    \E i \in 1 .. (Len(s) - Len(w) + 1) : SubSeq(s, i, i + Len(w) - 1) = w

\* String.prototype.trim (on spaces)
RECURSIVE trim(_)
trim(s) ==
    IF s = <<>> THEN s
    ELSE IF Head(s) = " " THEN trim(Tail(s))
    ELSE IF s[Len(s)] = " " THEN trim(SubSeq(s, 1, Len(s) - 1))
    ELSE s

\* q.split(" ")
RECURSIVE SplitSpaces(_, _)
SplitSpaces(q, word) ==
    IF q = <<>> THEN <<word>>
    ELSE IF Head(q) = " " THEN <<word>> \o SplitSpaces(Tail(q), <<>>)
    ELSE SplitSpaces(Tail(q), word \o <<Head(q)>>)

\* s.split("-")[0]
BeforeFirstHyphen(s) ==
    IF \E i \in 1 .. Len(s) : s[i] = "-"
    THEN SubSeq(s, 1, (CHOOSE i \in 1 .. Len(s) :
                          s[i] = "-" /\ \A j \in 1 .. (i - 1) : s[j] # "-") - 1)
    ELSE s

----------------------------------------------------------------------------
(* VINYL FILTERING, lines 101-128 *)

\* lines 101-106
BLOCK_WORDS == <<
    <<"p", "o", "s", "t", "e", "r">>,
    <<"p", "r", "i", "n", "t">>,
    <<"t", "s", "h", "i", "r", "t">>,
    <<"s", "h", "i", "r", "t">>,
    <<"h", "o", "o", "d", "i", "e">>,
    <<"j", "a", "c", "k", "e", "t">>,
    <<"s", "t", "i", "c", "k", "e", "r">>,
    <<"f", "i", "g", "u", "r", "e">>,
    <<"f", "u", "n", "k", "o">>,
    <<"t", "o", "y">>,
    <<"m", "a", "g", "n", "e", "t">>,
    <<"p", "a", "t", "c", "h">>,
    <<"k", "e", "y", "c", "h", "a", "i", "n">>,
    <<"c", "a", "n", "v", "a", "s">>,
    <<"d", "i", "g", "i", "t", "a", "l">>,
    <<"t", "e", "m", "p", "l", "a", "t", "e">>,
    <<"p", "d", "f">>,
    <<"e", "b", "o", "o", "k">>,
    <<"b", "u", "n", "d", "l", "e">>,
    <<"f", "r", "a", "m", "e">>,
    <<"p", "a", "i", "n", "t", "i", "n", "g">>,
    <<"l", "a", "m", "p">>,
    <<"f", "u", "r", "n", "i", "t", "u", "r", "e">>,
    <<"c", "a", "s", "e">>,
    <<"p", "h", "o", "n", "e">>,
    <<"i", "p", "h", "o", "n", "e">>
>>

\* lines 116-126, in the order tested
ALLOW_WORDS == <<
    <<"v", "i", "n", "y", "l">>,
    <<"l", "p">>,
    <<"r", "e", "c", "o", "r", "d">>,
    <<"a", "l", "b", "u", "m">>,
    <<"c", "a", "s", "s", "e", "t", "t", "e">>,
    <<"t", "a", "p", "e">>,
    <<"c", "d">>,
    <<"c", "o", "m", "p", "a", "c", "t", " ", "d", "i", "s", "c">>,
    <<"l", "i", "m", "i", "t", "e", "d", " ", "e", "d", "i", "t", "i", "o", "n">>,
    <<"f", "i", "r", "s", "t", " ", "p", "r", "e", "s", "s">>,
    <<"r", "e", "m", "a", "s", "t", "e", "r">>
>>

\* a raw item's optional field: absent (undefined) or present
Has(item, f) == f \in DOMAIN item

\* line 110: !item?.title  (a missing or empty title)
NoTitle(item) == ~Has(item, "title") \/ item.title = <<>>

\* the allow-list looked at before the block-list
isVinyl_AllowFirst(item) ==
    IF NoTitle(item) THEN FALSE
    ELSE LET t == toLowerCase(item.title)
         IN  IF \E i \in 1 .. Len(ALLOW_WORDS) : includes(t, ALLOW_WORDS[i])
             THEN TRUE
             ELSE FALSE

\* lines 109-128
isVinyl(item) ==
    IF NoTitle(item) THEN FALSE
    ELSE LET t == toLowerCase(item.title)
         IN  IF \E i \in 1 .. Len(BLOCK_WORDS) : includes(t, BLOCK_WORDS[i])
             THEN FALSE
             ELSE \E i \in 1 .. Len(ALLOW_WORDS) : includes(t, ALLOW_WORDS[i])

\* words that titles are made of: allow-list and block-list keywords in
\* several cases, keywords inside longer words, and words with neither
TitleWords == {
    <<"V","i","n","y","l">>, <<"L","P">>, <<"c","d">>,
    <<"P","O","S","T","E","R">>, <<"S","h","o","w","c","a","s","e">>,
    <<"H","e","l","p">>, <<"F","i","r","s","t">>, <<"p","r","e","s","s">>,
    <<"Q","u","e","e","n">>
}

MaxWords == 3

\* titles of one to MaxWords words, joined by single spaces
RECURSIVE TitlesOf(_)
TitlesOf(n) ==
    IF n = 1 THEN TitleWords
    ELSE LET shorter == TitlesOf(n - 1)
         IN  shorter \cup {t \o <<" ">> \o w : t \in shorter, w \in TitleWords}

\* items given to isVinyl: without a title, with an empty one, with a title
FilterInputs ==
    {[itemId |-> "x"], [itemId |-> "x", title |-> <<>>]} \cup
    {[itemId |-> "x", title |-> t] : t \in TitlesOf(MaxWords)}

\* isVinyl(item) is called on the item drawn
IsVinylCall ==
    /\ ~filterCall.called
    /\ filterCall' = [called |-> TRUE, item |-> filterCall.item,
                      ret |-> isVinyl(filterCall.item)]
    /\ UNCHANGED <<now, accessToken, accessTokenExpiresAt, cacheStore, issued,
                   caller, lastReturn, cacheCall, lastSet, req>>

----------------------------------------------------------------------------
(* NORMALIZER, lines 133-146 *)

\* line 137: item.brand || item.title?.split("-")[0]?.trim() || null
Artist(item) ==
    IF Has(item, "brand") /\ item.brand # <<>> THEN item.brand
    ELSE IF Has(item, "title") /\ trim(BeforeFirstHyphen(item.title)) # <<>>
         THEN trim(BeforeFirstHyphen(item.title))
         ELSE Null

\* lines 133-146 (the raw items of this model carry no image, url or
\* condition, so those fields come out as the code's defaults)
normalizeVinyl(item) ==
    [itemId |-> item.itemId,
     title |-> IF Has(item, "title") THEN item.title ELSE Null,
     artist |-> Artist(item),
     price |-> IF Has(item, "price") THEN item.price ELSE Null,
     image |-> Null,
     condition |-> Null]

\* Number(it.price?.value || 0)
PriceValue(item) == IF Has(item, "price") THEN item.price.value ELSE 0

----------------------------------------------------------------------------
(* Raw items and search responses of the item-search endpoint *)

ItemA == [itemId |-> "v1", title |-> <<"Q", "u", "e", "e", "n", " ", "-", " ", "J", "a", "z", "z", " ", "L", "P">>,
          price |-> [value |-> 20], itemCreationDate |-> 2]
ItemB == [itemId |-> "v2", title |-> <<"Q", "u", "e", "e", "n", " ", "-", " ", "J", "a", "z", "z", " ", "L", "P">>,
          price |-> [value |-> 35], itemCreationDate |-> 1]
ItemC == [itemId |-> "v3", title |-> <<"Q", "u", "e", "e", "n", " ", "L", "P", " ", "P", "o", "s", "t", "e", "r">>,
          price |-> [value |-> 15]]
ItemD == [itemId |-> "v4", price |-> [value |-> 50]]
ItemE == [itemId |-> "v5", title |-> <<"A", "B", "B", "A", " ", "c", "d">>,
          brand |-> <<"A", "B", "B", "A">>]

\* successful bodies: with itemSummaries, or without any (no match)
SearchBodies == {
    [total |-> 0],
    [itemSummaries |-> <<ItemA, ItemC>>],
    [itemSummaries |-> <<ItemB, ItemE, ItemD, ItemA>>]
}

\* error bodies of the item-search endpoint
ErrorBodies == {[errors |-> "e1"]}

\* every raw item the endpoints of this model return
AllItems == {ItemA, ItemB, ItemC, ItemD, ItemE}

\* isVinyl, evaluated once per raw item
VinylItems == {it \in AllItems : isVinyl(it)}

\* items.filter(isVinyl)
RECURSIVE FilterVinyl(_)
FilterVinyl(items) ==
    IF items = <<>> THEN <<>>
    ELSE IF Head(items) \in VinylItems
         THEN <<Head(items)>> \o FilterVinyl(Tail(items))
         ELSE FilterVinyl(Tail(items))

\* json.itemSummaries || []
ItemSummaries(json) ==
    IF Has(json, "itemSummaries") THEN json.itemSummaries ELSE <<>>

----------------------------------------------------------------------------
(* MARKETPLACE MAP, lines 65-79 *)

UpperChar(c) ==
    IF \E i \in 1 .. Len(LOWER) : LOWER[i] = c
    THEN UPPER[CHOOSE i \in 1 .. Len(LOWER) : LOWER[i] = c]
    ELSE c

toUpperCase(s) == [i \in 1 .. Len(s) |-> UpperChar(s[i])]

\* lines 65-75
MARKET_MAP ==
    (<<"U","S">> :> "EBAY_US") @@ (<<"U","K">> :> "EBAY_GB") @@
    (<<"G","B">> :> "EBAY_GB") @@ (<<"C","A">> :> "EBAY_CA") @@
    (<<"A","U">> :> "EBAY_AU") @@ (<<"D","E">> :> "EBAY_DE") @@
    (<<"F","R">> :> "EBAY_FR") @@ (<<"I","T">> :> "EBAY_IT") @@
    (<<"E","S">> :> "EBAY_ES")

\* lines 77-79
resolveMarketplace(country) ==
    IF toUpperCase(country) \in DOMAIN MARKET_MAP
    THEN MARKET_MAP[toUpperCase(country)]
    ELSE "EBAY_US"

----------------------------------------------------------------------------
(* Requests.  A slot holds one request from its arrival to its response;  *)
(* its fields are the handler's locals, where it is suspended (pc), and   *)
(* a record of what it has done so far.                                    *)

Slots == 1 .. NumRequests
OneSlot == {1}

NoResponse == [status |-> 0]

IdleReq ==
    [op |-> "idle", pc |-> "idle", params |-> [country |-> <<"U","S">>],
     inEs |-> FALSE,        \* suspended inside ebaySearch
     key |-> <<>>,          \* ebaySearch: cacheKey
     start |-> 0,           \* getAccessToken: now (line 22)
     token |-> NoToken,     \* the token the caller got
     idx |-> 0,             \* position in the fan-out loop
     found |-> <<>>,        \* trending: found
     merged |-> <<>>,       \* trending: [...map.values()]
     q |-> <<>>,            \* recommend: q
     base |-> [title |-> <<>>, artist |-> <<>>, price |-> 0],
                            \* recommend: baseTitle, baseArtist, basePrice
     asked |-> <<>>,        \* history: each ebaySearch call and its outcome
     log |-> <<>>,          \* history: steps of the current ebaySearch call
     hadFresh |-> [fresh |-> FALSE],
                            \* history: the fresh entry at that call, if any
     answer |-> [kind |-> "none"],
                            \* history: the item-search endpoint's last answer
     renewals |-> 0,        \* history: identity exchanges issued
     calls |-> 0,           \* history: other upstream requests issued
     writes |-> 0,          \* history: cache writes
     authFailed |-> 0,      \* history: renewals issued when one first failed
     res |-> NoResponse,    \* the response sent
     sent |-> 0]            \* number of responses sent

\* res.status(s).json(body) / res.json(body)
Respond(w, status, body) ==
    [w EXCEPT !.rq.pc = "done", !.rq.res = [status |-> status, body |-> body],
              !.rq.sent = @ + 1]

\* Array.prototype.slice(0, n)
SliceTo(seq, n) == SubSeq(seq, 1, Min(n, Len(seq)))

\* Array.prototype.sort with comparator (a, b) => f[b] - f[a]: stable
RECURSIVE InsertDesc(_, _, _)
InsertDesc(sorted, x, f) ==
    IF sorted = <<>> THEN <<x>>
    ELSE IF f[Head(sorted)] >= f[x]
         THEN <<Head(sorted)>> \o InsertDesc(Tail(sorted), x, f)
         ELSE <<x>> \o sorted

RECURSIVE SortDesc(_, _)
SortDesc(seq, f) ==
    IF seq = <<>> THEN <<>>
    ELSE InsertDesc(SortDesc(SubSeq(seq, 1, Len(seq) - 1), f), seq[Len(seq)], f)

Range(seq) == {seq[i] : i \in 1 .. Len(seq)}

----------------------------------------------------------------------------
(* EBAY SEARCH WRAPPER, lines 151-181, and the handlers that call it.     *)
(* These operators run a handler from the point where it resumes to its   *)
(* next network await, on a world w = [rq, cache, hist, rand]: the        *)
(* request, cacheStore, the history of cache writes and the values        *)
(* Math.random() returns.                                                  *)

\* history: the last setCache of key is still within its TTL
FreshInHistory(hist, key, t) ==
    key \in DOMAIN hist /\ t <= hist[key].at + hist[key].ttl

\* history: the value last set for key, while within its TTL
FreshEntry(hist, key, t) ==
    IF FreshInHistory(hist, key, t)
    THEN [fresh |-> TRUE, val |-> hist[key].val]
    ELSE [fresh |-> FALSE]

\* lines 159-170: the search request goes out with the token
IssueSearch(w) ==
    [w EXCEPT !.rq.pc = "search_fetch", !.rq.calls = @ + 1,
              !.rq.log = @ \o <<"search">>]

AwaitToken_SearchWithoutToken(w) == IssueSearch(w)

\* lines 304-314: the GTIN search of /lookup goes out
IssueGtinSearch(w) ==
    [w EXCEPT !.rq.pc = "gtin_fetch", !.rq.calls = @ + 1]

\* lines 361-369: the item-detail request of /recommend goes out
IssueDetailFetch(w) ==
    [w EXCEPT !.rq.pc = "detail_fetch", !.rq.calls = @ + 1]

\* the caller of getAccessToken resumes with the token: ebaySearch (line
\* 157), /lookup (line 300) or /recommend (line 358)
AfterToken(w, tok) ==
    LET w1 == [w EXCEPT !.rq.token = tok, !.rq.log = @ \o <<"token">>]
    IN  IF w.rq.inEs THEN IssueSearch(w1)
        ELSE IF w.rq.op = "recommend" THEN IssueDetailFetch(w1)
        ELSE IssueGtinSearch(w1)

\* lines 21-46, called at line 157: the cached token, or a renewal goes out
AwaitToken(w) ==
    IF TokenIsFresh(accessToken, accessTokenExpiresAt, now)
    THEN AfterToken(w, accessToken)
    ELSE [w EXCEPT !.rq.pc = "renewing", !.rq.start = now,
                   !.rq.renewals = @ + 1]

\* lines 191-206
TRENDING_QUERIES == <<
    <<"p", "i", "n", "k", " ", "f", "l", "o", "y", "d", " ", "v", "i", "n", "y", "l">>,
    <<"q", "u", "e", "e", "n", " ", "v", "i", "n", "y", "l">>,
    <<"n", "i", "r", "v", "a", "n", "a", " ", "v", "i", "n", "y", "l">>,
    <<"m", "e", "t", "a", "l", "l", "i", "c", "a", " ", "v", "i", "n", "y", "l">>,
    <<"t", "h", "e", " ", "b", "e", "a", "t", "l", "e", "s", " ", "v", "i", "n", "y", "l">>,
    <<"t", "a", "y", "l", "o", "r", " ", "s", "w", "i", "f", "t", " ", "v", "i", "n", "y", "l">>,
    <<"r", "a", "d", "i", "o", "h", "e", "a", "d", " ", "v", "i", "n", "y", "l">>,
    <<"f", "l", "e", "e", "t", "w", "o", "o", "d", " ", "m", "a", "c", " ", "v", "i", "n", "y", "l">>,
    <<"d", "a", "f", "t", " ", "p", "u", "n", "k", " ", "v", "i", "n", "y", "l">>,
    <<"j", "a", "z", "z", " ", "v", "i", "n", "y", "l">>,
    <<"h", "i", "p", " ", "h", "o", "p", " ", "v", "i", "n", "y", "l">>,
    <<"r", "a", "r", "e", " ", "c", "a", "s", "s", "e", "t", "t", "e", " ", "t", "a", "p", "e">>,
    <<"v", "i", "n", "t", "a", "g", "e", " ", "c", "a", "s", "s", "e", "t", "t", "e">>,
    <<"l", "i", "m", "i", "t", "e", "d", " ", "e", "d", "i", "t", "i", "o", "n", " ", "l", "p">>
>>

\* the fan-out list, cut to the model's bound
Queries == SubSeq(TRENDING_QUERIES, 1, Min(MaxQueries, Len(TRENDING_QUERIES)))

\* line 214
TRENDING_EXTRA == "&limit=50&sort=BEST_MATCH"
\* lines 253, 387
SEARCH_EXTRA == "&limit=200"

\* line 188: limit = 40
DEFAULT_TRENDING_LIMIT == 40

\* the last item seen for each title, instead of the first
RECURSIVE DedupByTitle_LastWins(_, _)
DedupByTitle_LastWins(items, seen) ==
    IF items = <<>> THEN <<>>
    ELSE IF \E i \in 2 .. Len(items) : items[i].title = Head(items).title
         THEN DedupByTitle_LastWins(Tail(items), seen)
         ELSE <<Head(items)>> \o DedupByTitle_LastWins(Tail(items), seen)

\* lines 222-223: first item seen for each title
RECURSIVE DedupByTitle(_, _)
DedupByTitle(items, seen) ==
    IF items = <<>> THEN <<>>
    ELSE IF Head(items).title \in seen
         THEN DedupByTitle(Tail(items), seen)
         ELSE <<Head(items)>> \o
              DedupByTitle(Tail(items), seen \cup {Head(items).title})

\* lines 225-228; jitter is the value of Math.random() * 10 drawn for it
Enrich(it, jitter) ==
    [item |-> normalizeVinyl(it), score |-> PriceValue(it) + jitter]

\* lines 222-236
TrendingFinish(w) ==
    LET merged == DedupByTitle(w.rq.found, {})
        enriched == [i \in 1 .. Len(merged) |-> Enrich(merged[i], w.rand[i])]
        sorted == SortDesc(enriched, [e \in Range(enriched) |-> e.score])
        limit == IF Has(w.rq.params, "limit") THEN w.rq.params.limit
                 ELSE DEFAULT_TRENDING_LIMIT
    IN  Respond([w EXCEPT !.rq.merged = merged], 200,
                [country |-> w.rq.params.country,
                 total |-> Len(enriched),
                 items |-> SliceTo(sorted, limit)])

\* json.itemSummaries || []: the array of the payload itself, or a new
\* empty one.  ofPayload tells whether an array is the payload's own.
SummariesArray(json) ==
    [elems |-> ItemSummaries(json), ofPayload |-> Has(json, "itemSummaries")]

\* a filter that removes the other elements from its receiver
ArrayFilterVinyl_InPlace(arr) == [arr EXCEPT !.elems = FilterVinyl(@)]

\* Array.prototype.filter(isVinyl): a new array; its receiver stays as it is
ArrayFilterVinyl(arr) == [elems |-> FilterVinyl(arr.elems), ofPayload |-> FALSE]

\* Array.prototype.sort with comparator (a, b) => f[b] - f[a]: sorts its
\* receiver in place
ArraySort(arr, f) == [arr EXCEPT !.elems = SortDesc(@, f)]

\* Array.prototype.slice(start, end), 0 <= start
Slice(seq, start, end) == SubSeq(seq, start + 1, Min(end, Len(seq)))

\* the payload json, which is the object stored under the key of the
\* current ebaySearch call, after the handler worked on the array arr
Aliased(w, json, arr) ==
    IF arr.ofPayload /\ w.rq.key \in DOMAIN w.cache
    THEN [w EXCEPT !.cache[w.rq.key].val =
                       [json EXCEPT !.itemSummaries = arr.elems]]
    ELSE w

\* line 247: defaults of page, limit and sort
DEFAULT_PAGE == 1
DEFAULT_SEARCH_LIMIT == 20
DEFAULT_SORT == "best"

\* new Date(it.itemCreationDate || 0), as a number
CreationDate(item) ==
    IF Has(item, "itemCreationDate") THEN item.itemCreationDate ELSE 0

\* lines 258-273
SortItems(arr, sort) ==
    CASE sort = "price_low" ->
           ArraySort(arr, [i \in Range(arr.elems) |-> 0 - PriceValue(i)])
      [] sort = "price_high" ->
           ArraySort(arr, [i \in Range(arr.elems) |-> PriceValue(i)])
      [] sort = "newest" ->
           ArraySort(arr, [i \in Range(arr.elems) |-> CreationDate(i)])
      [] OTHER -> arr

\* lines 256-283
SearchFinish(w, json) ==
    LET p == w.rq.params
        page == IF Has(p, "page") THEN p.page ELSE DEFAULT_PAGE
        limit == IF Has(p, "limit") THEN p.limit ELSE DEFAULT_SEARCH_LIMIT
        sort == IF Has(p, "sort") THEN p.sort ELSE DEFAULT_SORT
        items == SortItems(ArrayFilterVinyl(SummariesArray(json)), sort)
        start == (page - 1) * limit
        paged == Slice(items.elems, start, start + limit)
    IN  Respond(Aliased(w, json, items), 200,
                [country |-> p.country, query |-> p.q,
                 total |-> Len(items.elems),
                 items |-> [i \in 1 .. Len(paged) |-> normalizeVinyl(paged[i])]])

TrendingStep_AbortOnFailure(rq, out) ==
    IF out.threw
    THEN [rq EXCEPT !.idx = Len(Queries) + 1]
    ELSE [rq EXCEPT !.found = @ \o FilterVinyl(ItemSummaries(out.json)),
                    !.idx = @ + 1]

\* lines 209-220: one turn of the fan-out loop, given what ebaySearch
\* returned or threw (a failure is logged and skipped)
TrendingStep(rq, out) ==
    [rq EXCEPT !.found = IF out.threw THEN @
                         ELSE @ \o FilterVinyl(ItemSummaries(out.json)),
               !.idx = @ + 1]

\* line 323
LOOKUP_EXTRA == "&limit=20"

\* the fallback branch answering without returning: the answer of lines
\* 334-339 follows it
LookupFinish_FallThrough(w, items, fallback) ==
    LET body(fb) == [code |-> w.rq.params.code, fallback |-> fb,
                     total_items |-> Len(items),
                     items |-> [i \in 1 .. Len(items) |-> normalizeVinyl(items[i])]]
    IN  IF fallback
        THEN Respond(Respond(w, 200, body(TRUE)), 200, body(FALSE))
        ELSE Respond(w, 200, body(FALSE))

\* lines 326-331, 334-339
LookupFinish(w, items, fallback) ==
    Respond(w, 200,
            [code |-> w.rq.params.code, fallback |-> fallback,
             total_items |-> Len(items),
             items |-> [i \in 1 .. Len(items) |-> normalizeVinyl(items[i])]])

----------------------------------------------------------------------------
(* /recommend scoring, lines 390-441.  A score is a JavaScript number: NaN, *)
(* or a finite value kept in hundredths.                                    *)

NaN == [nan |-> TRUE]
Num(x100) == [nan |-> FALSE, x100 |-> x100]

\* a + b on scores
Plus(a, b) == IF a.nan \/ b.nan THEN NaN ELSE Num(a.x100 + b.x100)

\* s.split(/\s+/): as split(" "), without the empty strings between two
\* neighbouring spaces
SplitWhitespace(s) ==
    LET parts == SplitSpaces(s, <<>>)
        keep == {i \in 1 .. Len(parts) :
                    parts[i] # <<>> \/ i = 1 \/ i = Len(parts)}
        nth(k) == CHOOSE i \in keep : Cardinality({j \in keep : j < i}) = k - 1
    IN  [k \in 1 .. Cardinality(keep) |-> parts[nth(k)]]

\* lines 393-396
BaseWords(baseTitle) ==
    LET ws == SplitWhitespace(toLowerCase(baseTitle))
    IN  SelectSeq(ws, LAMBDA w : Len(w) > 2)

\* lines 404-410
ArtistTerm(n, baseArtist) ==
    IF baseArtist # <<>> /\ n.artist # Null /\ n.artist # <<>>
       /\ toLowerCase(n.artist) = toLowerCase(baseArtist)
    THEN Num(2000) ELSE Num(0)

\* lines 412-413: Math.max(0, 15 - (diff / basePrice) * 20).  With basePrice
\* 0, diff / basePrice is Infinity when diff > 0 (the term is
\* Math.max(0, -Infinity) = 0) and NaN when diff = 0 (Math.max(0, NaN) = NaN)
PriceTerm(priceVal, basePrice) ==
    LET diff == IF priceVal >= basePrice THEN priceVal - basePrice
                ELSE basePrice - priceVal
    IN  IF basePrice = 0
        THEN IF diff = 0 THEN NaN ELSE Num(0)
        ELSE Num(Max(0, 1500 - (4000 * diff + basePrice) \div (2 * basePrice)))

\* lines 415-420
OverlapTerm(n, baseWords) ==
    LET words == SplitWhitespace(toLowerCase(n.title))
    IN  Num(200 * Cardinality({i \in 1 .. Len(baseWords) :
                                 baseWords[i] \in Range(words)}))

\* what the item endpoint answers for the base item
DetailBodies ==
    {[itemId |-> "v1", title |-> ItemA.title, brand |-> <<"q","u","e","e","n">>,
      price |-> [value |-> 20]],
     [itemId |-> "v1", title |-> <<"J","a","z","z"," ","L","P">>]}

\* lines 373-379
BaseOf(detailJson) ==
    [title |-> IF Has(detailJson, "title") THEN detailJson.title ELSE <<>>,
     artist |-> IF Has(detailJson, "brand") THEN detailJson.brand ELSE <<>>,
     price |-> PriceValue(detailJson)]

\* lines 353-355
NoBase == [title |-> <<>>, artist |-> <<>>, price |-> 0]

\* the base items a request of this model can have
Bases == {NoBase} \cup {BaseOf(d) : d \in DetailBodies}

\* lines 402-420, evaluated once per base and candidate
BaseScores ==
    [base \in Bases |->
        [it \in VinylItems |->
            LET n == normalizeVinyl(it)
            IN  Plus(Plus(ArtistTerm(n, base.artist),
                          PriceTerm(PriceValue(it), base.price)),
                     OverlapTerm(n, BaseWords(base.title)))]]

\* lines 398-428; jitter is Math.random() * 3, in hundredths
RecommendScore(it, base, jitter) == Plus(BaseScores[base][it], Num(jitter))

\* line 391, when id is given
ExcludeBase_OnlyWithBaseTitle(items, id, base) ==
    IF base.title = <<>> THEN items
    ELSE SelectSeq(items, LAMBDA i : i.itemId # id)

\* line 391: items.filter(i => i.itemId !== id)
ExcludeBase(items, id, base) == SelectSeq(items, LAMBDA i : i.itemId # id)

\* line 440
DEFAULT_RECOMMEND_LIMIT == 20

\* lines 390-441.  The comparator of line 430 returns NaN when a score is
\* NaN; it is then not a consistent comparator and the order the sort leaves
\* is implementation-defined: w.rand.order ranks the items in that case.
RecommendFinish(w, json) ==
    LET vinylArr == ArrayFilterVinyl(SummariesArray(json))
        vinyl == vinylArr.elems
        given == Has(w.rq.params, "id") /\ w.rq.params.id # ""
        items == IF given THEN ExcludeBase(vinyl, w.rq.params.id, w.rq.base)
                 ELSE vinyl
        recommended ==
            [i \in 1 .. Len(items) |->
                [item |-> normalizeVinyl(items[i]), pos |-> i,
                 recommend_score |->
                     RecommendScore(items[i], w.rq.base, w.rand.jitter[i])]]
        consistent == \A i \in 1 .. Len(items) : ~recommended[i].recommend_score.nan
        sorted == IF consistent
                  THEN SortDesc(recommended,
                         [e \in Range(recommended) |-> e.recommend_score.x100])
                  ELSE SortDesc(recommended,
                         [e \in Range(recommended) |-> w.rand.order[e.pos]])
        limit == IF Has(w.rq.params, "limit") THEN w.rq.params.limit
                 ELSE DEFAULT_RECOMMEND_LIMIT
    IN  Respond(Aliased(w, json, vinylArr), 200,
                [base |-> [id |-> IF given THEN w.rq.params.id ELSE Null,
                           title |-> w.rq.base.title,
                           artist |-> w.rq.base.artist,
                           price |-> w.rq.base.price],
                 total_items |-> Len(recommended),
                 items |-> SliceTo(sorted, limit)])

RECURSIVE ebaySearch(_, _, _), AfterEbaySearch(_, _)

\* lines 151-157: the cache lookup, then the token
ebaySearch(w, q, extra) ==
    LET key == <<resolveMarketplace(w.rq.params.country), q, extra>>
        g == getCache(w.cache, key, now)
        w1 == [w EXCEPT !.cache = g.store, !.rq.inEs = TRUE, !.rq.key = key,
                        !.rq.hadFresh = FreshEntry(w.hist, key, now)]
    IN  IF g.ret # Null
        THEN AfterEbaySearch([w1 EXCEPT !.rq.log = <<"cache_hit">>],
                             [threw |-> FALSE, json |-> g.ret])
        ELSE AwaitToken([w1 EXCEPT !.rq.log = <<"cache_miss">>])

\* the caller of ebaySearch resumes with what it returned or threw
AfterEbaySearch(w, out) ==
    LET w1 == [w EXCEPT !.rq.inEs = FALSE,
                        !.rq.asked = Append(@, [key |-> w.rq.key, out |-> out])]
    IN  CASE w.rq.op = "search" ->
               \* lines 250, 284-286
               IF out.threw
               THEN Respond(w1, 500, [error |-> out.err])
               ELSE SearchFinish(w1, out.json)
          [] w.rq.op = "lookup" ->
               \* lines 320-331, 340-342
               IF out.threw
               THEN Respond(w1, 500, [error |-> out.err])
               ELSE LET arr == ArrayFilterVinyl(SummariesArray(out.json))
                    IN  LookupFinish(Aliased(w1, out.json, arr), arr.elems, TRUE)
          [] w.rq.op = "recommend" ->
               \* lines 384-388, 442-444
               IF out.threw
               THEN Respond(w1, 500, [error |-> out.err])
               ELSE RecommendFinish(w1, out.json)
          [] w.rq.op = "trending" ->
               \* lines 209-220
               LET wa == IF out.threw THEN w1
                         ELSE Aliased(w1, out.json,
                                  ArrayFilterVinyl(SummariesArray(out.json)))
                   w2 == [wa EXCEPT !.rq = TrendingStep(@, out)]
               IN  IF w2.rq.idx <= Len(Queries)
                   THEN ebaySearch(w2, Queries[w2.rq.idx], TRENDING_EXTRA)
                   ELSE TrendingFinish(w2)

\* what the item-search endpoint answers: a body with a success status, a
\* body with an error status, or no answer at all (fetch rejects)
SearchOutcomes ==
    [kind : {"ok"}, json : SearchBodies] \cup
    [kind : {"http_error"}, json : ErrorBodies] \cup
    {[kind |-> "network"]}

EbaySearchResult_StoreBeforeCheck(o) ==
    IF o.kind = "network"
    THEN [threw |-> TRUE, err |-> [kind |-> "network"], store |-> FALSE]
    ELSE [threw |-> o.kind # "ok", err |-> [kind |-> "upstream", body |-> o.json],
          json |-> o.json, store |-> TRUE]

\* lines 164-180: what ebaySearch does with the answer
EbaySearchResult(o) ==
    IF o.kind = "network"
    THEN [threw |-> TRUE, err |-> [kind |-> "network"], store |-> FALSE]
    ELSE IF o.kind # "ok"
    THEN [threw |-> TRUE, err |-> [kind |-> "upstream", body |-> o.json],
          store |-> FALSE]
    ELSE [threw |-> FALSE, json |-> o.json, store |-> TRUE]

\* line 52
AuthError(resp) == [kind |-> "auth", data |-> resp]

\* q of /vinyl-search requests
SearchQueries == {<<"a">>}
\* query parameters of /vinyl-trending requests
TrendingParams == {[country |-> <<"U","S">>],
                   [country |-> <<"U","S">>, limit |-> 1]}

\* values of Math.random() * 10 (line 227), one draw per merged item
Jitters == {0, 9}
MaxMerged == Cardinality({it.title : it \in VinylItems})
RandomSeqs == [1 .. MaxMerged -> Jitters]

World(r, rand) ==
    [rq |-> req[r], cache |-> cacheStore, hist |-> lastSet, rand |-> rand]

NoRandom == [i \in 1 .. MaxMerged |-> 0]

Commit(r, w) ==
    /\ req' = [req EXCEPT ![r] = w.rq]
    /\ cacheStore' = w.cache
    /\ lastSet' = w.hist

\* a request arrives at /vinyl-search: lines 245-254
ReceiveSearch(r) ==
    /\ req[r].pc \in {"idle", "done"}
    /\ \E q \in SearchQueries :
        LET rq == [IdleReq EXCEPT !.op = "search",
                      !.params = [q |-> q, country |-> <<"U","S">>]]
            w == [World(r, NoRandom) EXCEPT !.rq = rq]
        IN  Commit(r, ebaySearch(w, q, SEARCH_EXTRA))
    /\ UNCHANGED <<now, accessToken, accessTokenExpiresAt, issued, caller,
                   lastReturn, cacheCall, filterCall>>

\* sort, page and limit of /vinyl-search requests
SortedSearchParams == {
    [q |-> <<"a">>, country |-> <<"U","S">>, sort |-> "price_low"],
    [q |-> <<"a">>, country |-> <<"U","S">>, sort |-> "price_high",
     page |-> 2, limit |-> 1],
    [q |-> <<"a">>, country |-> <<"U","S">>, sort |-> "newest"]
}

\* a request arrives at /vinyl-search with a sort: lines 245-254
ReceiveSortedSearch(r) ==
    /\ req[r].pc \in {"idle", "done"}
    /\ \E params \in SortedSearchParams :
        LET rq == [IdleReq EXCEPT !.op = "search", !.params = params]
            w == [World(r, NoRandom) EXCEPT !.rq = rq]
        IN  Commit(r, ebaySearch(w, params.q, SEARCH_EXTRA))
    /\ UNCHANGED <<now, accessToken, accessTokenExpiresAt, issued, caller,
                   lastReturn, cacheCall, filterCall>>

\* a request arrives at /vinyl-trending: lines 186-215
ReceiveTrending(r) ==
    /\ req[r].pc \in {"idle", "done"}
    /\ \E params \in TrendingParams, rand \in RandomSeqs :
        LET rq == [IdleReq EXCEPT !.op = "trending", !.params = params,
                                  !.idx = 1]
            w == [World(r, rand) EXCEPT !.rq = rq]
        IN  Commit(r, ebaySearch(w, Queries[1], TRENDING_EXTRA))
    /\ UNCHANGED <<now, accessToken, accessTokenExpiresAt, issued, caller,
                   lastReturn, cacheCall, filterCall>>

\* values of Math.random() * 3 (line 422) in hundredths, one draw per
\* candidate, and the ranks an implementation-defined sort may leave
RecommendJitters == {0, 299}
MaxRecommended == Cardinality(VinylItems)
Orders ==
    {f \in [1 .. MaxRecommended -> 1 .. MaxRecommended] :
        \A i, j \in 1 .. MaxRecommended : i # j => f[i] # f[j]}
NoJitter == [i \in 1 .. MaxRecommended |-> 0]
InOrder == [i \in 1 .. MaxRecommended |-> MaxRecommended - i]
RecommendDraws ==
    [jitter : [1 .. MaxRecommended -> RecommendJitters], order : {InOrder}]
    \cup [jitter : {NoJitter}, order : Orders]

\* the values Math.random() may return while request r runs on
RandomDraws(r) ==
    IF req[r].op = "trending" THEN RandomSeqs
    ELSE IF req[r].op = "recommend" THEN RecommendDraws
    ELSE {NoRandom}

\* the identity endpoint answers a renewal of request r: lines 39-59, then
\* the caller's continuation.  No history of issued tokens is kept here: the
\* new token is any token other than the stored one.
IdentityResponse(r) ==
    /\ req[r].pc = "renewing"
    /\ \E resp \in IdentityResponses, rand \in RandomDraws(r) :
        LET newTok == (accessToken % MaxTokens) + 1
            c == CredentialAfter(accessToken, accessTokenExpiresAt,
                                 req[r].start, resp, newTok)
            w == World(r, rand)
        IN  /\ accessToken' = c.token
            /\ accessTokenExpiresAt' = c.expiresAt
            /\ Commit(r,
                 IF c.threw
                 THEN LET w1 == [w EXCEPT !.rq.authFailed =
                                    IF @ = 0 THEN w.rq.renewals ELSE @]
                      IN  IF w.rq.inEs
                          THEN AfterEbaySearch(w1,
                                 [threw |-> TRUE, err |-> AuthError(resp)])
                          ELSE \* lines 340-342
                               Respond(w1, 500, [error |-> AuthError(resp)])
                 ELSE AfterToken(w, c.token))
    /\ UNCHANGED <<now, issued, caller, lastReturn, cacheCall, filterCall>>

\* the item-search endpoint answers request r: lines 164-180, then the
\* caller's continuation
SearchResponse(r) ==
    /\ req[r].pc = "search_fetch"
    /\ \E o \in SearchOutcomes, rand \in RandomDraws(r) :
        LET e == EbaySearchResult(o)
            w0 == World(r, rand)
            w == [w0 EXCEPT !.rq.answer = o]
            w1 == IF e.store
                  THEN [w EXCEPT
                          !.cache = setCache(@, w.rq.key, e.json, CACHE_TTL, now),
                          !.hist = (w.rq.key :> [val |-> e.json, at |-> now,
                                                 ttl |-> CACHE_TTL]) @@ @,
                          !.rq.writes = @ + 1]
                  ELSE w
        IN  Commit(r, AfterEbaySearch(w1,
                IF e.threw THEN [threw |-> TRUE, err |-> e.err]
                ELSE [threw |-> FALSE, json |-> e.json]))
    /\ UNCHANGED <<now, accessToken, accessTokenExpiresAt, issued, caller,
                   lastReturn, cacheCall, filterCall>>

----------------------------------------------------------------------------
(* /lookup, lines 292-343 *)

MissingParam_OnlyUndefined(ps, name) == ~Has(ps, name)

\* lines 297, 455, 528: !code, !q  (undefined or the empty string)
MissingParam(ps, name) == ~Has(ps, name) \/ ps[name] = <<>>

\* lines 298, 455, 529
ValidationError(name) == [error |-> <<"Parameter wajib diisi", name>>]

\* query strings of /lookup requests: code absent, empty or given
LookupParams ==
    {[country |-> <<"U","S">>],
     [country |-> <<"U","S">>, code |-> <<>>],
     [country |-> <<"U","S">>, code |-> <<"a">>]}

\* a request arrives at /lookup: lines 292-300
ReceiveLookup(r) ==
    /\ req[r].pc \in {"idle", "done"}
    /\ \E params \in LookupParams :
        LET rq == [IdleReq EXCEPT !.op = "lookup", !.params = params]
            w == [World(r, NoRandom) EXCEPT !.rq = rq]
        IN  Commit(r, IF MissingParam(params, "code")
                      THEN Respond(w, 400, ValidationError("code"))
                      ELSE AwaitToken(w))
    /\ UNCHANGED <<now, accessToken, accessTokenExpiresAt, issued, caller,
                   lastReturn, cacheCall, filterCall>>

\* the fallback left out
NeedsFallback_Never(items) == FALSE

\* line 319
NeedsFallback(items) == Len(items) = 0

\* the item-search endpoint answers the GTIN search: lines 309-339 (the
\* status is not looked at; a network failure throws to line 340)
GtinResponse(r) ==
    /\ req[r].pc = "gtin_fetch"
    /\ \E o \in SearchOutcomes :
        LET w == [World(r, NoRandom) EXCEPT !.rq.answer = o]
        IN  Commit(r,
              IF o.kind = "network"
              THEN Respond(w, 500, [error |-> [kind |-> "network"]])
              ELSE LET items == FilterVinyl(ItemSummaries(o.json))
                   IN  IF NeedsFallback(items)
                       THEN ebaySearch(w, w.rq.params.code, LOOKUP_EXTRA)
                       ELSE LookupFinish(w, items, FALSE))
    /\ UNCHANGED <<now, accessToken, accessTokenExpiresAt, issued, caller,
                   lastReturn, cacheCall, filterCall>>

----------------------------------------------------------------------------
(* /recommend, lines 348-445 *)

\* query strings of /recommend requests: id and q absent or given
RecommendParams ==
    {[country |-> <<"U","S">>, q |-> <<"a">>, limit |-> 1],
     [country |-> <<"U","S">>, id |-> "v1"],
     [country |-> <<"U","S">>, id |-> "v1", q |-> <<"a">>]}

\* line 351: req.query.q || ""
QueryOrEmpty(ps) == IF Has(ps, "q") THEN ps.q ELSE <<>>

\* line 382
DEFAULT_RECOMMEND_QUERY == <<"v","i","n","y","l"," ","r","e","c","o","r","d">>

\* line 387
RECOMMEND_EXTRA == "&limit=200"

\* lines 382-388
RecommendSearch(w) ==
    LET q == IF w.rq.q = <<>> THEN DEFAULT_RECOMMEND_QUERY ELSE w.rq.q
    IN  ebaySearch([w EXCEPT !.rq.q = q], q, RECOMMEND_EXTRA)

\* a request arrives at /recommend: lines 348-358, or 382-388 without id
ReceiveRecommend(r) ==
    /\ req[r].pc \in {"idle", "done"}
    /\ \E params \in RecommendParams :
        LET rq == [IdleReq EXCEPT !.op = "recommend", !.params = params,
                                  !.q = QueryOrEmpty(params)]
        IN  IF Has(params, "id") /\ params.id # ""
            THEN Commit(r, AwaitToken([World(r, NoRandom) EXCEPT !.rq = rq]))
            ELSE \E rand \in RecommendDraws :
                    Commit(r, RecommendSearch([World(r, rand) EXCEPT !.rq = rq]))
    /\ UNCHANGED <<now, accessToken, accessTokenExpiresAt, issued, caller,
                   lastReturn, cacheCall, filterCall>>

DetailOutcomes ==
    [kind : {"ok"}, json : DetailBodies] \cup
    [kind : {"http_error"}, json : ErrorBodies] \cup
    {[kind |-> "network"]}

\* the item endpoint answers the detail request: lines 361-388
DetailResponse(r) ==
    /\ req[r].pc = "detail_fetch"
    /\ \E o \in DetailOutcomes, rand \in RecommendDraws :
        LET w == [World(r, rand) EXCEPT !.rq.answer = o]
        IN  Commit(r,
              IF o.kind = "network"
              THEN Respond(w, 500, [error |-> [kind |-> "network"]])
              ELSE IF o.kind = "ok"
              THEN LET base == BaseOf(o.json)
                       q == IF w.rq.q = <<>>
                            THEN base.artist \o <<" ">> \o base.title
                            ELSE w.rq.q
                   IN  RecommendSearch([w EXCEPT !.rq.base = base, !.rq.q = q])
              ELSE RecommendSearch(w))
    /\ UNCHANGED <<now, accessToken, accessTokenExpiresAt, issued, caller,
                   lastReturn, cacheCall, filterCall>>

----------------------------------------------------------------------------
(* Completed listings of the finding endpoint.  Times are minutes, as      *)
(* everywhere; DAY is 86400000 ms.                                          *)

DAY == 1440

Sold(price, endTime) ==
    [sellingState |-> "EndedWithSales", price |-> price, endTime |-> endTime]
Unsold(price, endTime) ==
    [sellingState |-> "EndedWithoutSales", price |-> price, endTime |-> endTime]

\* a sold listing whose listingInfo carries no endTime
SoldUndated(price) == [sellingState |-> "EndedWithSales", price |-> price]

FindingBodies == {
    [item |-> <<Sold(10, -5 * DAY), Unsold(99, -1 * DAY), Sold(20, -35 * DAY)>>],
    [item |-> <<Sold(20, -35 * DAY), Sold(30, -65 * DAY), Sold(40, -95 * DAY),
                Sold(10, -5 * DAY)>>],
    [item |-> <<Sold(50, 3 - 30 * DAY), Sold(60, -5 * DAY), Sold(10, -95 * DAY)>>],
    [item |-> <<SoldUndated(5)>>]
}

FindingOutcomes ==
    [kind : {"ok"}, json : FindingBodies] \cup
    [kind : {"http_error"}, json : ErrorBodies] \cup
    {[kind |-> "network"]}

\* json?.findCompletedItemsResponse?.[0]?.searchResult?.[0]?.item || []
FindingItems(json) == IF Has(json, "item") THEN json.item ELSE <<>>

\* lines 563-565, 474
RECURSIVE FilterSold(_)
FilterSold(items) ==
    IF items = <<>> THEN <<>>
    ELSE IF Head(items).sellingState = "EndedWithSales"
         THEN <<Head(items)>> \o FilterSold(Tail(items))
         ELSE FilterSold(Tail(items))

\* Number(avg.toFixed(2)), in hundredths: sum / n rounded half up
AverageX100(sum, n) == (200 * sum + n) \div (2 * n)

RECURSIVE SumSeq(_)
SumSeq(xs) == IF xs = <<>> THEN 0 ELSE Head(xs) + SumSeq(Tail(xs))

----------------------------------------------------------------------------
(* /price-history, lines 450-520 *)

PriceHistoryParams == {[none |-> TRUE], [q |-> <<>>], [q |-> <<"a">>]}

\* a request arrives at /price-history: lines 450-467
ReceivePriceHistory(r) ==
    /\ req[r].pc \in {"idle", "done"}
    /\ \E params \in PriceHistoryParams :
        LET rq == [IdleReq EXCEPT !.op = "price-history", !.params = params]
            w == [World(r, NoRandom) EXCEPT !.rq = rq]
        IN  Commit(r, IF MissingParam(params, "q")
                      THEN Respond(w, 400, ValidationError("q"))
                      ELSE [w EXCEPT !.rq.pc = "sold_fetch",
                                     !.rq.calls = @ + 1])
    /\ UNCHANGED <<now, accessToken, accessTokenExpiresAt, issued, caller,
                   lastReturn, cacheCall, filterCall>>

\* lines 473-487
SoldItem(i) ==
    [price |-> i.price,
     endDate |-> IF Has(i, "endTime") THEN i.endTime ELSE Null]

\* the upper central value, whatever the size
MedianX100_UpperCentral(prices) == 100 * prices[Len(prices) \div 2 + 1]

\* lines 500-505, in hundredths
MedianX100(prices) ==
    IF Len(prices) % 2 = 0
    THEN 50 * (prices[Len(prices) \div 2] + prices[Len(prices) \div 2 + 1])
    ELSE 100 * prices[Len(prices) \div 2 + 1]

\* lines 470-515
PriceHistoryFinish(w, json) ==
    LET sold == FilterSold(FindingItems(json))
        soldItems == [i \in 1 .. Len(sold) |-> SoldItem(sold[i])]
        unsorted == [i \in 1 .. Len(sold) |-> soldItems[i].price]
        prices == SortDesc(unsorted, [x \in Range(unsorted) |-> 0 - x])
    IN  IF Len(soldItems) = 0
        THEN Respond(w, 200, [query |-> w.rq.params.q, total_sold |-> 0,
                              items |-> <<>>])
        ELSE Respond(w, 200,
               [query |-> w.rq.params.q,
                total_sold |-> Len(soldItems),
                average_price |-> AverageX100(SumSeq(prices), Len(prices)),
                lowest_price |-> prices[1],
                highest_price |-> prices[Len(prices)],
                median_price |-> MedianX100(prices),
                items |-> soldItems])

----------------------------------------------------------------------------
(* /chart-data, lines 525-632 *)

\* q.replace(/\s+/g, "")
RECURSIVE RemoveSpaces(_)
RemoveSpaces(q) ==
    IF q = <<>> THEN <<>>
    ELSE IF Head(q) = " " THEN RemoveSpaces(Tail(q))
    ELSE <<Head(q)>> \o RemoveSpaces(Tail(q))

\* q.replace(a, b) with strings: the first occurrence only
RECURSIVE ReplaceFirst(_, _, _)
ReplaceFirst(q, a, b) ==
    IF q = <<>> THEN <<>>
    ELSE IF Head(q) = a THEN <<b>> \o Tail(q)
    ELSE <<Head(q)>> \o ReplaceFirst(Tail(q), a, b)

\* words.reverse().join(" ")
RECURSIVE ReverseJoin(_)
ReverseJoin(words) ==
    IF Len(words) = 1 THEN words[1]
    ELSE words[Len(words)] \o <<" ">> \o
         ReverseJoin(SubSeq(words, 1, Len(words) - 1))

\* [...new Set(xs)]
RECURSIVE Uniq(_, _)
Uniq(xs, seen) ==
    IF xs = <<>> THEN <<>>
    ELSE IF Head(xs) \in seen THEN Uniq(Tail(xs), seen)
    ELSE <<Head(xs)>> \o Uniq(Tail(xs), seen \cup {Head(xs)})

\* lines 531-541
Expansions(q) == <<
    q,
    RemoveSpaces(q),
    ReplaceFirst(q, " ", "-"),
    ReplaceFirst(q, "-", " "),
    ReverseJoin(SplitSpaces(q, <<>>)),
    q \o <<" ","v","i","n","y","l">>,
    q \o <<" ","l","p">>,
    q \o <<" ","r","e","c","o","r","d">>,
    q \o <<" ","c","a","s","s","e","t","t","e">>
>>

\* line 543, cut to the model's bound
Variants(q) ==
    LET uniq == Uniq(Expansions(q), {})
    IN  SubSeq(uniq, 1, Min(MaxVariants, Len(uniq)))

ChartParams == {[none |-> TRUE], [q |-> <<>>], [q |-> <<"a"," ","b">>]}

\* lines 545-557: fetchSold(keyword) sends its request
IssueFetchSold(w) ==
    [w EXCEPT !.rq.pc = "sold_fetch", !.rq.calls = @ + 1]

\* a request arrives at /chart-data: lines 525-578
ReceiveChart(r) ==
    /\ req[r].pc \in {"idle", "done"}
    /\ \E params \in ChartParams :
        LET rq == [IdleReq EXCEPT !.op = "chart-data", !.params = params,
                                  !.idx = 1]
            w == [World(r, NoRandom) EXCEPT !.rq = rq]
        IN  Commit(r, IF MissingParam(params, "q")
                      THEN Respond(w, 400, ValidationError("q"))
                      ELSE IssueFetchSold(w))
    /\ UNCHANGED <<now, accessToken, accessTokenExpiresAt, issued, caller,
                   lastReturn, cacheCall, filterCall>>

\* lines 566-571
SoldRecord(it) ==
    [price |-> it.price,
     date |-> IF Has(it, "endTime") THEN [valid |-> TRUE, t |-> it.endTime]
              ELSE [valid |-> FALSE]]

\* lines 559-573
SoldRecords(json) ==
    LET sold == FilterSold(FindingItems(json))
    IN  [i \in 1 .. Len(sold) |-> SoldRecord(sold[i])]

\* the first record seen for each date, whatever its price
RECURSIVE DedupByDatePrice_ByDateOnly(_, _)
DedupByDatePrice_ByDateOnly(items, seen) ==
    IF items = <<>> THEN <<>>
    ELSE LET key == Head(items).date.t
         IN  IF key \in seen THEN DedupByDatePrice_ByDateOnly(Tail(items), seen)
             ELSE <<Head(items)>> \o
                  DedupByDatePrice_ByDateOnly(Tail(items), seen \cup {key})

\* lines 582-587: first record seen for each (date, price)
RECURSIVE DedupByDatePrice(_, _)
DedupByDatePrice(items, seen) ==
    IF items = <<>> THEN <<>>
    ELSE LET key == <<Head(items).date.t, Head(items).price>>
         IN  IF key \in seen THEN DedupByDatePrice(Tail(items), seen)
             ELSE <<Head(items)>> \o
                  DedupByDatePrice(Tail(items), seen \cup {key})

\* the prices of all records, whatever the window
rangeData_AllRecords(combined, days, t) ==
    [i \in 1 .. Len(combined) |-> combined[i].price]

\* lines 602-603: the prices of the records of the last `days` days
RECURSIVE rangeData(_, _, _)
rangeData(combined, days, t) ==
    IF combined = <<>> THEN <<>>
    ELSE IF Head(combined).date.t >= t - days * DAY
         THEN <<Head(combined).price>> \o rangeData(Tail(combined), days, t)
         ELSE rangeData(Tail(combined), days, t)

\* lines 605-614 (average in hundredths)
makeSummary(prices) ==
    IF Len(prices) = 0 THEN Null
    ELSE [count |-> Len(prices),
          average |-> AverageX100(SumSeq(prices), Len(prices)),
          lowest |-> CHOOSE x \in Range(prices) : \A y \in Range(prices) : x <= y,
          highest |-> CHOOSE x \in Range(prices) : \A y \in Range(prices) : x >= y]

\* lines 582-627
ChartFinish(w) ==
    IF \E i \in 1 .. Len(w.rq.found) : ~w.rq.found[i].date.valid
    THEN \* toISOString of an invalid date throws: lines 584, 628-631
         Respond(w, 500, [error |-> [kind |-> "range"]])
    ELSE
    LET deduped == DedupByDatePrice(w.rq.found, {})
        combined == SortDesc(deduped, [x \in Range(deduped) |-> x.date.t])
        variants == Variants(w.rq.params.q)
        w1 == [w EXCEPT !.rq.merged = combined]
    IN  IF Len(combined) = 0
        THEN Respond(w1, 200,
               [query |-> w.rq.params.q, expanded_queries |-> variants,
                chart |-> [d30 |-> Null, d60 |-> Null, d90 |-> Null]])
        ELSE Respond(w1, 200,
               [query |-> w.rq.params.q, expanded_queries |-> variants,
                total_sold_combined |-> Len(combined),
                chart |-> [d30 |-> makeSummary(rangeData(combined, 30, now)),
                           d60 |-> makeSummary(rangeData(combined, 60, now)),
                           d90 |-> makeSummary(rangeData(combined, 90, now))]])

\* lines 576-580: fetchSold returned or threw for the variant at idx; the
\* loop has no try/catch of its own, so a throw goes to line 628
ChartStep(w, o) ==
    IF o.kind = "network"
    THEN Respond(w, 500, [error |-> [kind |-> "network"]])
    ELSE LET w1 == [w EXCEPT !.rq.found = @ \o SoldRecords(o.json),
                             !.rq.idx = @ + 1]
         IN  IF w1.rq.idx <= Len(Variants(w.rq.params.q))
             THEN IssueFetchSold(w1)
             ELSE ChartFinish(w1)

\* the finding endpoint answers request r: lines 467-468 and 556-557, then
\* the rest of the handler
SoldResponse(r) ==
    /\ req[r].pc = "sold_fetch"
    /\ \E o \in FindingOutcomes :
        LET w0 == World(r, NoRandom)
            w == [w0 EXCEPT !.rq.asked = Append(@, [idx |-> w0.rq.idx, out |-> o])]
        IN  Commit(r,
              IF req[r].op = "chart-data" THEN ChartStep(w, o)
              ELSE IF o.kind = "network"
                   THEN Respond(w, 500, [error |-> [kind |-> "network"]])
                   ELSE PriceHistoryFinish(w, o.json))
    /\ UNCHANGED <<now, accessToken, accessTokenExpiresAt, issued, caller,
                   lastReturn, cacheCall, filterCall>>

----------------------------------------------------------------------------
InitServer ==
    /\ now = 0
    /\ accessToken = NoToken
    /\ accessTokenExpiresAt = 0
    /\ cacheStore = <<>>
    /\ issued = <<>>
    /\ caller = [p \in Callers |-> IdleCaller]
    /\ lastReturn = NoReturn
    /\ cacheCall = [op |-> "none", key |-> <<>>, ret |-> Null, at |-> 0]
    /\ lastSet = <<>>
    /\ req = [r \in Slots |-> IdleReq]

Init ==
    /\ InitServer
    /\ filterCall = [called |-> FALSE]

\* an item is drawn for isVinyl
InitFilter ==
    /\ InitServer
    /\ filterCall \in [called : {FALSE}, item : FilterInputs]

NextToken ==
    \/ \E p \in Callers : GetAccessTokenCall(p)
    \/ \E p \in Callers : RenewalResponse(p)
    \/ Tick

SpecToken == Init /\ [][NextToken]_vars

NextCache ==
    \/ SetCacheCall
    \/ GetCacheCall
    \/ Tick

SpecCache == Init /\ [][NextCache]_vars

NextFilter == IsVinylCall

SpecFilter == InitFilter /\ [][NextFilter]_vars

\* /vinyl-search requests, concurrently
NextSearch ==
    \/ \E r \in Slots : ReceiveSearch(r)
    \/ \E r \in Slots : IdentityResponse(r)
    \/ \E r \in Slots : SearchResponse(r)
    \/ Wait

SpecSearch == Init /\ [][NextSearch]_vars

\* /vinyl-trending requests, one at a time
NextTrending ==
    \/ \E r \in OneSlot : ReceiveTrending(r)
    \/ \E r \in OneSlot : IdentityResponse(r)
    \/ \E r \in OneSlot : SearchResponse(r)
    \/ Wait

SpecTrending == Init /\ [][NextTrending]_vars

\* /chart-data requests, one at a time
NextChart ==
    \/ \E r \in OneSlot : ReceiveChart(r)
    \/ \E r \in OneSlot : SoldResponse(r)
    \/ Wait

SpecChart == Init /\ [][NextChart]_vars

\* /lookup, /price-history and /chart-data requests, one at a time
NextValidated ==
    \/ \E r \in OneSlot : ReceiveLookup(r)
    \/ \E r \in OneSlot : ReceivePriceHistory(r)
    \/ \E r \in OneSlot : ReceiveChart(r)
    \/ \E r \in OneSlot : IdentityResponse(r)
    \/ \E r \in OneSlot : GtinResponse(r)
    \/ \E r \in OneSlot : SearchResponse(r)
    \/ \E r \in OneSlot : SoldResponse(r)
    \/ Wait

SpecValidated == Init /\ [][NextValidated]_vars

\* /recommend requests, one at a time, within the lifetime of the cache
\* entries
NextRecommend ==
    \/ \E r \in OneSlot : ReceiveRecommend(r)
    \/ \E r \in OneSlot : IdentityResponse(r)
    \/ \E r \in OneSlot : DetailResponse(r)
    \/ \E r \in OneSlot : SearchResponse(r)

SpecRecommend == Init /\ [][NextRecommend]_vars

\* slot r has handled no request yet, or requests of this route only
OnRoute(r, op) == req[r].op \in {"idle", op}

\* the six routes: requests one at a time, each behaviour staying on the
\* route of its first request
NextRoutes ==
    \/ \E r \in OneSlot : OnRoute(r, "trending") /\ ReceiveTrending(r)
    \/ \E r \in OneSlot : OnRoute(r, "search") /\ ReceiveSearch(r)
    \/ \E r \in OneSlot : OnRoute(r, "lookup") /\ ReceiveLookup(r)
    \/ \E r \in OneSlot : OnRoute(r, "recommend") /\ ReceiveRecommend(r)
    \/ \E r \in OneSlot : OnRoute(r, "price-history") /\ ReceivePriceHistory(r)
    \/ \E r \in OneSlot : OnRoute(r, "chart-data") /\ ReceiveChart(r)
    \/ \E r \in OneSlot : IdentityResponse(r)
    \/ \E r \in OneSlot : SearchResponse(r)
    \/ \E r \in OneSlot : GtinResponse(r)
    \/ \E r \in OneSlot : DetailResponse(r)
    \/ \E r \in OneSlot : SoldResponse(r)

SpecRoutes == Init /\ [][NextRoutes]_vars

\* the cache takes new requests while it holds fewer entries than this
MaxCached == 2

CacheHasRoom == Cardinality(DOMAIN cacheStore) < MaxCached

\* the four routes that go through ebaySearch, one request at a time,
\* within the lifetime of the cache entries
NextPayload ==
    \/ \E r \in OneSlot : CacheHasRoom /\ ReceiveSortedSearch(r)
    \/ \E r \in OneSlot : CacheHasRoom /\ ReceiveTrending(r)
    \/ \E r \in OneSlot : CacheHasRoom /\ ReceiveLookup(r)
    \/ \E r \in OneSlot : CacheHasRoom /\ ReceiveRecommend(r)
    \/ \E r \in OneSlot : IdentityResponse(r)
    \/ \E r \in OneSlot : SearchResponse(r)
    \/ \E r \in OneSlot : GtinResponse(r)
    \/ \E r \in OneSlot : DetailResponse(r)

SpecPayload == Init /\ [][NextPayload]_vars

----------------------------------------------------------------------------
(* Credential manager *)

\* The upstream expiry of an issued token: its issue time plus its lifetime.
UpstreamExpiry(tok) == issued[tok].at + issued[tok].life

\* The stored expiry belongs to the stored token: it is the start of that
\* token's renewal call plus (lifetime - 60 s).
StoredExpiryBelongsToToken ==
    accessToken # NoToken =>
        accessTokenExpiresAt =
            issued[accessToken].start + issued[accessToken].life - SAFETY_MARGIN

\* A token returned without renewal was returned before its stored expiry.
CachedReturnOnlyWhileFresh ==
    (lastReturn.kind = "token" /\ lastReturn.cached) =>
        lastReturn.at <
            issued[lastReturn.tok].start + issued[lastReturn.tok].life
                - SAFETY_MARGIN

\* C1: getAccessToken returns the stored token without renewal only while
\* now < stored expiry, the stored expiry is (start of the stored token's
\* renewal call) + (lifetime - 60 s), and no token is handed out later than
\* 60 s before its upstream expiry.
C1_TokenNeverHandedOutLate ==
    /\ CachedReturnOnlyWhileFresh
    /\ StoredExpiryBelongsToToken
    /\ lastReturn.kind = "token" =>
            lastReturn.at + SAFETY_MARGIN <= UpstreamExpiry(lastReturn.tok)

\* C2: at most one renewal exchange with the identity endpoint is in flight
\* at any time.
C2_AtMostOneRenewalInFlight ==
    Cardinality({p \in Callers : caller[p].pc = "renewing"}) <= 1

----------------------------------------------------------------------------
(* Result cache *)

\* C3: getCache(key) returns the most recently set value of the key while its
\* TTL has not elapsed (now <= time of the set + ttl); otherwise it returns
\* null and the key is no longer in the store.
C3_GetCacheReturnsFreshLastSet ==
    cacheCall.op = "get" =>
        IF FreshInHistory(lastSet, cacheCall.key, cacheCall.at)
        THEN cacheCall.ret = lastSet[cacheCall.key].val
        ELSE /\ cacheCall.ret = Null
                 /\ cacheCall.key \notin DOMAIN cacheStore

\* a lookup of a key that was set, after its TTL elapsed
C3_Witness ==
    /\ cacheCall.op = "get"
    /\ cacheCall.key \in DOMAIN lastSet
    /\ cacheCall.at > lastSet[cacheCall.key].at + lastSet[cacheCall.key].ttl
    /\ cacheCall.ret = Null

----------------------------------------------------------------------------
(* Cached search client *)

IsPrefix(s, t) == Len(s) <= Len(t) /\ SubSeq(t, 1, Len(s)) = s

\* C4: in ebaySearch the cache lookup comes first and gates the rest: with a
\* fresh entry for the key the cached response is returned and neither a
\* renewal nor an upstream request is issued; without one the steps are cache
\* miss, then the token, then the search request, in that order.
C4_CacheLookupGatesUpstream ==
    \A r \in Slots :
        req[r].op = "search" =>
            IF req[r].hadFresh.fresh
            THEN /\ req[r].log = <<"cache_hit">>
                 /\ req[r].renewals = 0 /\ req[r].calls = 0
                 /\ req[r].pc = "done"
                 /\ req[r].asked =
                       <<[key |-> req[r].key,
                          out |-> [threw |-> FALSE,
                                   json |-> req[r].hadFresh.val]]>>
            ELSE /\ IsPrefix(req[r].log, <<"cache_miss", "token", "search">>)
                 /\ Len(req[r].log) >= 1
                 /\ req[r].calls = (IF Len(req[r].log) = 3 THEN 1 ELSE 0)
                 /\ Len(req[r].log) = 3 => req[r].token # NoToken

\* a request answered from the cache
C4_Witness ==
    \E r \in Slots :
        /\ req[r].op = "search" /\ req[r].pc = "done"
        /\ req[r].log = <<"cache_hit">>
        /\ req[r].res.status = 200

\* C5: when the upstream search answers with a non-success status, ebaySearch
\* throws an error carrying the upstream body and writes nothing to the
\* cache; the cache holds only successful upstream responses, each with
\* expiry exactly 5 minutes after the time it was stored.
C5_OnlySuccessesCached ==
    /\ \A k \in DOMAIN cacheStore :
          /\ cacheStore[k].val \in SearchBodies
          /\ k \in DOMAIN lastSet
          /\ cacheStore[k].val = lastSet[k].val
          /\ cacheStore[k].exp = lastSet[k].at + 5
    /\ \A r \in Slots :
          (req[r].op = "search" /\ req[r].answer.kind = "http_error") =>
              /\ req[r].pc = "done"
              /\ req[r].res = [status |-> 500,
                               body |-> [error |-> [kind |-> "upstream",
                                             body |-> req[r].answer.json]]]
              /\ req[r].writes = 0

\* a search failed upstream while the cache held an earlier response
C5_Witness ==
    \E r \in Slots :
        /\ req[r].op = "search" /\ req[r].answer.kind = "http_error"
        /\ req[r].key \in DOMAIN cacheStore

----------------------------------------------------------------------------
(* Trending fan-out *)

TrendingDone(r) == req[r].op = "trending" /\ req[r].pc = "done"

\* the relevant items of the queries that succeeded, as places <<query, position>>
RelevantPlaces(asked) ==
    {p \in UNION {{<<i, j>> : j \in 1 .. Len(ItemSummaries(
                                   IF asked[i].out.threw THEN [total |-> 0]
                                   ELSE asked[i].out.json))}
                  : i \in 1 .. Len(asked)} :
        isVinyl(asked[p[1]].out.json.itemSummaries[p[2]])}

ItemAt(asked, p) == asked[p[1]].out.json.itemSummaries[p[2]]

Earlier(p, q) == p[1] < q[1] \/ (p[1] = q[1] /\ p[2] <= q[2])

\* C6: whichever queries fail, every query of the list is still issued, in
\* list order, and the response is a success built from the relevant items of
\* all the queries that succeeded (one per title; total counts them, items
\* holds the first `limit` of them by score).
C6_FailedQueriesAreSkipped ==
    \A r \in OneSlot :
        TrendingDone(r) =>
            LET rq == req[r]
                places == RelevantPlaces(rq.asked)
                titles == {ItemAt(rq.asked, p).title : p \in places}
                limit == IF Has(rq.params, "limit") THEN rq.params.limit
                         ELSE 40
            IN  /\ rq.res.status = 200
                /\ rq.sent = 1
                /\ Len(rq.asked) = Len(Queries)
                /\ \A i \in 1 .. Len(Queries) :
                      rq.asked[i].key[2] = Queries[i]
                /\ {rq.merged[i].title : i \in 1 .. Len(rq.merged)} = titles
                /\ \A p \in places :
                      \E i \in 1 .. Len(rq.merged) :
                          rq.merged[i].title = ItemAt(rq.asked, p).title
                /\ rq.res.body.total = Cardinality(titles)
                /\ Len(rq.res.body.items) = Min(limit, Cardinality(titles))
                /\ \A i \in 1 .. Len(rq.res.body.items) :
                      rq.res.body.items[i].item.title \in titles

\* the first query failed, the second succeeded with relevant items
C6_Witness ==
    \E r \in OneSlot :
        /\ TrendingDone(r)
        /\ req[r].asked[1].out.threw
        /\ ~req[r].asked[2].out.threw
        /\ req[r].res.body.total > 0

\* C8: if a renewal fails while a request is processed, the request ends with
\* an error response carrying the renewal failure and issues no further
\* renewal.
C8_AuthFailureEndsRequest ==
    \A r \in Slots :
        req[r].authFailed > 0 =>
            /\ req[r].pc = "done"
            /\ req[r].res.status = 500
            /\ req[r].res.body.error.kind = "auth"
            /\ req[r].renewals = req[r].authFailed

\* C10: the merged trending result holds exactly one item per title returned
\* (among relevant items of the queries that succeeded), and it is the
\* first-seen one: earliest query in list order, earliest position in it.
C10_DedupFirstSeenWins ==
    \A r \in OneSlot :
        TrendingDone(r) =>
            LET rq == req[r]
                places == RelevantPlaces(rq.asked)
            IN  \A p \in places :
                    LET t == ItemAt(rq.asked, p).title
                        first == CHOOSE f \in places :
                                    /\ ItemAt(rq.asked, f).title = t
                                    /\ \A g \in places :
                                          ItemAt(rq.asked, g).title = t
                                              => Earlier(f, g)
                        hits == {i \in 1 .. Len(rq.merged) :
                                    rq.merged[i].title = t}
                    IN  /\ Cardinality(hits) = 1
                        /\ \A i \in hits :
                              rq.merged[i] = ItemAt(rq.asked, first)

\* two queries returned different items with the same title
C10_Witness ==
    \E r \in OneSlot :
        /\ TrendingDone(r)
        /\ \E p, q \in RelevantPlaces(req[r].asked) :
              /\ p[1] < q[1]
              /\ ItemAt(req[r].asked, p).title = ItemAt(req[r].asked, q).title
              /\ ItemAt(req[r].asked, p) # ItemAt(req[r].asked, q)
              /\ ItemAt(req[r].asked, p) = ItemB

----------------------------------------------------------------------------
(* Chart-data fan-out *)

\* C7: in the chart-data fan-out a failure while fetching one variant is
\* skipped: the remaining variants are still fetched and the response is a
\* success carrying the window summaries.
C7_FailedVariantIsSkipped ==
    \A r \in OneSlot :
        (/\ req[r].op = "chart-data" /\ req[r].pc = "done"
         /\ \E i \in 1 .. Len(req[r].asked) : req[r].asked[i].out.kind # "ok")
        => /\ Len(req[r].asked) = Len(Variants(req[r].params.q))
           /\ req[r].res.status = 200
           /\ Has(req[r].res.body, "chart")

ChartAnswered(rq) ==
    rq.op = "chart-data" /\ rq.pc = "done" /\ rq.res.status = 200

WindowDays == {30, 60, 90}

\* the summary of the response for the window of n days
SummaryOf(rq, n) ==
    IF n = 30 THEN rq.res.body.chart.d30
    ELSE IF n = 60 THEN rq.res.body.chart.d60
    ELSE rq.res.body.chart.d90

\* the combined records whose timestamp lies within the n days before t
InWindow(rq, n, t) ==
    {i \in 1 .. Len(rq.merged) :
        /\ rq.merged[i].date.t >= t - n * DAY
        /\ rq.merged[i].date.t <= t}

RECURSIVE PriceSum(_, _)
PriceSum(rq, idx) ==
    IF idx = {} THEN 0
    ELSE LET i == CHOOSE j \in idx : TRUE
         IN  rq.merged[i].price + PriceSum(rq, idx \ {i})

\* the summary of n days is null when the window is empty, and otherwise
\* counts the window's records, with their average (to the nearest
\* hundredth), lowest and highest price
WindowCorrect(rq, n, t) ==
    LET idx == InWindow(rq, n, t)
        sm == SummaryOf(rq, n)
    IN  IF idx = {} THEN sm = Null
        ELSE /\ sm # Null
             /\ sm.count = Cardinality(idx)
             /\ LET d == sm.average * sm.count - 100 * PriceSum(rq, idx)
                IN  2 * d <= sm.count /\ 2 * d > 0 - sm.count
             /\ \E i \in idx : rq.merged[i].price = sm.lowest
             /\ \A i \in idx : rq.merged[i].price >= sm.lowest
             /\ \E i \in idx : rq.merged[i].price = sm.highest
             /\ \A i \in idx : rq.merged[i].price <= sm.highest

\* C13: in the step that answers a chart-data request, each of the 30-, 60-
\* and 90-day summaries is computed over the same combined record set: it
\* counts the records of the last N days, its average, lowest and highest
\* are those of exactly these prices, and it is null exactly when no record
\* falls in the window.
C13_WindowSummaries ==
    [][\A r \in OneSlot :
          (req[r].pc = "sold_fetch" /\ ChartAnswered(req'[r])) =>
              \A n \in WindowDays : WindowCorrect(req'[r], n, now')]_vars

\* records at day-offsets 5, 35, 65, 95 with prices 10, 20, 30, 40 gave
\* count 1 / average 10, count 2 / average 15, count 3 / average 20
C13_Witness ==
    \E r \in OneSlot :
        /\ ChartAnswered(req[r])
        /\ Range(req[r].merged) =
              {SoldRecord(Sold(10, -5 * DAY)), SoldRecord(Sold(20, -35 * DAY)),
               SoldRecord(Sold(30, -65 * DAY)), SoldRecord(Sold(40, -95 * DAY))}
        /\ SummaryOf(req[r], 30).count = 1 /\ SummaryOf(req[r], 30).average = 1000
        /\ SummaryOf(req[r], 60).count = 2 /\ SummaryOf(req[r], 60).average = 1500
        /\ SummaryOf(req[r], 90).count = 3 /\ SummaryOf(req[r], 90).average = 2000

\* the sold records of the variants fetched, in fetch order
RECURSIVE FetchedRecords(_)
FetchedRecords(asked) ==
    IF asked = <<>> THEN <<>>
    ELSE FetchedRecords(SubSeq(asked, 1, Len(asked) - 1)) \o
         (LET out == asked[Len(asked)].out
          IN  IF out.kind = "network" THEN <<>>
              ELSE SoldRecords(out.json))

PairOf(rec) == <<rec.date.t, rec.price>>

\* C14: the combined set of a chart-data answer holds exactly one record per
\* distinct (timestamp, price) pair among the records of all variants, the
\* first one seen in fetch order, and is ordered by timestamp descending.
C14_CombinedDedupedAndSorted ==
    \A r \in OneSlot :
        ChartAnswered(req[r]) =>
            LET all == FetchedRecords(req[r].asked)
                comb == req[r].merged
            IN  /\ {PairOf(comb[i]) : i \in 1 .. Len(comb)} =
                     {PairOf(all[i]) : i \in 1 .. Len(all)}
                /\ \A i, j \in 1 .. Len(comb) :
                      PairOf(comb[i]) = PairOf(comb[j]) => i = j
                /\ \A i \in 1 .. Len(comb) :
                      LET first == CHOOSE k \in 1 .. Len(all) :
                                      /\ PairOf(all[k]) = PairOf(comb[i])
                                      /\ \A m \in 1 .. (k - 1) :
                                            PairOf(all[m]) # PairOf(comb[i])
                      IN  comb[i] = all[first]
                /\ \A i, j \in 1 .. Len(comb) :
                      i < j => comb[i].date.t >= comb[j].date.t

\* two variants returned the same (timestamp, price) pair, and two records
\* with the same timestamp and different prices were both kept
C14_Witness ==
    \E r \in OneSlot :
        /\ ChartAnswered(req[r])
        /\ LET all == FetchedRecords(req[r].asked)
               comb == req[r].merged
           IN  /\ \E i, j \in 1 .. Len(all) :
                     i # j /\ PairOf(all[i]) = PairOf(all[j])
               /\ \E i, j \in 1 .. Len(comb) :
                     /\ comb[i].date.t = comb[j].date.t
                     /\ comb[i].price # comb[j].price
               /\ \E i \in 1 .. Len(all) - 1 :
                     all[i].date.t < all[i + 1].date.t

----------------------------------------------------------------------------
(* Domain filter *)

\* keyword w occurs in title t, letter case aside
ContainsKeyword(t, w) ==
    \E i \in 0 .. (Len(t) - Len(w)) :
        \A k \in 1 .. Len(w) : LowerChar(t[i + k]) = w[k]

\* C16: isVinyl is true exactly when the item has a title that contains,
\* case-insensitively, no block-list keyword and at least one allow-list
\* keyword: a block-list keyword makes it false whatever else the title
\* holds, a title with neither is false, an item without title is false.
C16_IsVinylIffAllowedAndNotBlocked ==
    filterCall.called =>
        LET item == filterCall.item
            titled == "title" \in DOMAIN item
            blocked == \E i \in 1 .. Len(BLOCK_WORDS) :
                          ContainsKeyword(item.title, BLOCK_WORDS[i])
            allowed == \E i \in 1 .. Len(ALLOW_WORDS) :
                          ContainsKeyword(item.title, ALLOW_WORDS[i])
        IN  filterCall.ret = (titled /\ ~blocked /\ allowed)

\* a title with an allow-list keyword and a block-list keyword ("Vinyl
\* POSTER") was found not relevant
C16_Witness ==
    /\ filterCall.called
    /\ "title" \in DOMAIN filterCall.item
    /\ ContainsKeyword(filterCall.item.title, <<"v","i","n","y","l">>)
    /\ ContainsKeyword(filterCall.item.title, <<"p","o","s","t","e","r">>)
    /\ filterCall.ret = FALSE

----------------------------------------------------------------------------
(* Lookup *)

\* the request is in, or has been through, the cached search client
UsedSearchClient(rq) == rq.inEs \/ rq.asked # <<>>

\* the relevant items of a response body, normalized
RelevantOf(json) ==
    LET items == SelectSeq(ItemSummaries(json), isVinyl)
    IN  [i \in 1 .. Len(items) |-> normalizeVinyl(items[i])]

\* C17: in a lookup the keyword search through the cached search client
\* starts only in the step that receives the answer of the identifier (GTIN)
\* search, and it starts there exactly when that answer holds no relevant
\* item; the response's fallback flag is true exactly when its items are
\* those of the keyword search, false when they are those of the identifier
\* search.
C17_LookupFallback ==
    [][\A r \in OneSlot :
          LET a == req[r]
              b == req'[r]
          IN  /\ (/\ b.op = "lookup" /\ UsedSearchClient(b)
                  /\ ~(a.op = "lookup" /\ UsedSearchClient(a)))
                 => (a.op = "lookup" /\ a.pc = "gtin_fetch")
              /\ (/\ a.op = "lookup" /\ a.pc = "gtin_fetch" /\ b # a
                  /\ b.answer.kind # "network")
                 => (UsedSearchClient(b) <=> RelevantOf(b.answer.json) = <<>>)
              /\ (b.op = "lookup" /\ b.pc = "done" /\ b.res.status = 200)
                 => /\ b.res.body.fallback = (b.asked # <<>>)
                    /\ b.res.body.items =
                         IF b.asked # <<>>
                         THEN RelevantOf(b.asked[Len(b.asked)].out.json)
                         ELSE RelevantOf(b.answer.json)
      ]_vars

\* the identifier search found nothing relevant and the keyword search did
C17_Witness ==
    \E r \in OneSlot :
        /\ req[r].op = "lookup" /\ req[r].pc = "done"
        /\ req[r].res.status = 200
        /\ req[r].res.body.fallback
        /\ req[r].res.body.total_items > 0
        /\ req[r].writes = 1

----------------------------------------------------------------------------
(* Responses *)

Pending(r) == req[r].pc \notin {"idle", "done"}

\* the request of slot r waits for the answer of its n-th upstream call
WaitsForCall(r, n) == Pending(r) /\ req[r].renewals + req[r].calls = n

\* an upper bound of the upstream calls of one request
MaxUpstream == 2 * (MaxQueries + MaxVariants)

\* every upstream call the request issues eventually returns or fails: the
\* request never waits for the same call forever
UpstreamAnswers(r) == \A n \in 0 .. MaxUpstream : []<>~WaitsForCall(r, n)

\* C18: a request of any of the six routes gets exactly one response: none
\* while it waits for an upstream answer, one once its handler is through,
\* never two; and a request that waits is eventually answered, given that
\* every upstream call eventually returns or fails.
C18_ExactlyOneResponse ==
    \A r \in OneSlot :
        /\ [](/\ req[r].sent <= 1
              /\ Pending(r) => req[r].sent = 0
              /\ req[r].pc = "done" => req[r].sent = 1 /\ req[r].res.status # 0)
        /\ UpstreamAnswers(r) =>
              (Pending(r) ~> (req[r].pc = "done" /\ req[r].sent = 1))

\* a lookup was answered from its fallback branch, after three upstream
\* calls: the renewal, the identifier search and the keyword search
C18_Witness ==
    \E r \in OneSlot :
        /\ req[r].op = "lookup" /\ req[r].pc = "done" /\ req[r].sent = 1
        /\ req[r].res.status = 200 /\ req[r].res.body.fallback
        /\ req[r].renewals = 1 /\ req[r].calls = 2

----------------------------------------------------------------------------
(* Price history *)

PriceHistoryAnswered(rq) ==
    /\ rq.op = "price-history" /\ rq.pc = "done" /\ rq.res.status = 200
    /\ rq.res.body.total_sold > 0

\* the k-th smallest price of a series, repetitions counted
KthSmallest(items, k) ==
    CHOOSE v \in {items[i].price : i \in 1 .. Len(items)} :
        /\ Cardinality({i \in 1 .. Len(items) : items[i].price < v}) < k
        /\ Cardinality({i \in 1 .. Len(items) : items[i].price <= v}) >= k

\* C15: for a non-empty series of sold prices, median_price is the central
\* value of the ascending series when its size is odd and the mean of the
\* two central values when it is even, in whatever order the upstream
\* returned the records.
C15_MedianOfSortedSeries ==
    \A r \in OneSlot :
        PriceHistoryAnswered(req[r]) =>
            LET items == req[r].res.body.items
                n == Len(items)
            IN  req[r].res.body.median_price =
                    IF n % 2 = 1
                    THEN 100 * KthSmallest(items, (n + 1) \div 2)
                    ELSE 50 * (KthSmallest(items, n \div 2) +
                               KthSmallest(items, n \div 2 + 1))

\* the upstream returned 20, 30, 40, 10 in this order: the median is 25
C15_Witness ==
    \E r \in OneSlot :
        /\ PriceHistoryAnswered(req[r])
        /\ [i \in 1 .. Len(req[r].res.body.items) |->
               req[r].res.body.items[i].price] = <<20, 30, 40, 10>>
        /\ req[r].res.body.median_price = 2500

----------------------------------------------------------------------------
(* Validation *)

\* the required parameter of the request is undefined or empty
ParamMissing(rq) ==
    IF rq.op = "lookup"
    THEN ~Has(rq.params, "code") \/ rq.params.code = <<>>
    ELSE ~Has(rq.params, "q") \/ rq.params.q = <<>>

\* C9: a lookup without code, a price-history without q and a chart-data
\* without q are answered with status 400 in the step that receives them:
\* no renewal, no upstream request, no cache write, and the credential and
\* the cache are left as they were.
C9_ValidationBeforeUpstream ==
    [][\A r \in OneSlot :
          (/\ req'[r] # req[r]
           /\ req'[r].op \in {"lookup", "price-history", "chart-data"}
           /\ ParamMissing(req'[r]))
          => /\ req'[r].pc = "done"
             /\ req'[r].res.status = 400
             /\ req'[r].sent = 1
             /\ req'[r].renewals = 0
             /\ req'[r].calls = 0
             /\ req'[r].writes = 0
             /\ UNCHANGED <<accessToken, accessTokenExpiresAt, cacheStore>>
      ]_vars

\* a lookup with an empty code was refused while a credential and a cached
\* response were held
C9_Witness ==
    \E r \in OneSlot :
        /\ req[r].op = "lookup" /\ req[r].pc = "done"
        /\ Has(req[r].params, "code") /\ req[r].params.code = <<>>
        /\ req[r].res.status = 400
        /\ accessToken # NoToken
        /\ cacheStore # <<>>

----------------------------------------------------------------------------
(* Recommendations *)

RecommendDone(r) ==
    req[r].op = "recommend" /\ req[r].pc = "done" /\ req[r].res.status = 200

\* Number(n.price?.value || 0) of a normalized item
NormalizedPrice(n) == IF n.price = Null THEN 0 ELSE n.price.value

\* C11: when the base price is 0, the price-similarity term of every
\* candidate in the response is exactly 0, whatever the candidate's price
\* (0 or missing included), and every recommend_score is a defined number.
C11_ZeroBasePriceTermIsZero ==
    \A r \in OneSlot :
        (RecommendDone(r) /\ req[r].base.price = 0) =>
            \A i \in 1 .. Len(req[r].res.body.items) :
                LET e == req[r].res.body.items[i]
                IN  /\ ~e.recommend_score.nan
                    /\ PriceTerm(NormalizedPrice(e.item), 0) = Num(0)

\* the request gave an explicit base item id
IdGiven(r) == Has(req[r].params, "id") /\ req[r].params.id # ""

\* C12: when a recommendation request gives an explicit base item id, no item
\* of the response has that itemId, whatever the search returned (from the
\* upstream or from the cache) and whether or not the detail fetch succeeded.
C12_BaseItemExcluded ==
    \A r \in OneSlot :
        (RecommendDone(r) /\ IdGiven(r)) =>
            \A i \in 1 .. Len(req[r].res.body.items) :
                req[r].res.body.items[i].item.itemId # req[r].params.id

\* the detail fetch failed, the search result came from the cache and held
\* the base item among other relevant items
C12_Witness ==
    \E r \in OneSlot :
        /\ RecommendDone(r) /\ IdGiven(r)
        /\ req[r].base = NoBase
        /\ req[r].log = <<"cache_hit">>
        /\ req[r].res.body.total_items > 0
        /\ \E k \in 1 .. Len(req[r].asked) :
              LET out == req[r].asked[k].out
              IN  /\ ~out.threw
                  /\ \E it \in Range(FilterVinyl(ItemSummaries(out.json))) :
                        it.itemId = req[r].params.id

----------------------------------------------------------------------------
(* Credential *)

\* a step in which caller p's renewal ends without a token being issued
FailedRenewalStep(p) ==
    /\ caller[p].pc = "renewing"
    /\ caller'[p].pc = "idle"
    /\ issued' = issued

\* C19: a failed renewal (non-success answer or no access_token in it) leaves
\* the stored token and the stored expiry as they were before the call, so
\* the next call finds the credential fresh exactly when it was fresh before
C19_FailedRenewalLeavesCredential ==
    [][\A p \in Callers :
          FailedRenewalStep(p) =>
              /\ lastReturn'.kind = "threw"
              /\ accessToken' = accessToken
              /\ accessTokenExpiresAt' = accessTokenExpiresAt
              /\ TokenIsFresh(accessToken', accessTokenExpiresAt', now')
                    = TokenIsFresh(accessToken, accessTokenExpiresAt, now)]_vars

\* a renewal has just failed while an earlier token, now stale, is stored
C19_Witness ==
    /\ lastReturn.kind = "threw"
    /\ lastReturn.at = now
    /\ accessToken # NoToken
    /\ accessTokenExpiresAt > 0
    /\ Len(issued) = 1

----------------------------------------------------------------------------
(* Cached payloads *)

\* C20: no handler modifies a payload held in the cache: the value under
\* each cache key, the order of its itemSummaries included, is the upstream
\* response that was stored, and what a cache hit hands to a handler is
\* that response
C20_CachedPayloadUntouched ==
    /\ \A key \in DOMAIN cacheStore :
          /\ key \in DOMAIN lastSet
          /\ cacheStore[key].val = lastSet[key].val
    /\ \A r \in OneSlot : \A i \in 1 .. Len(req[r].asked) :
          ~req[r].asked[i].out.threw =>
              /\ req[r].asked[i].key \in DOMAIN lastSet
              /\ req[r].asked[i].out.json = lastSet[req[r].asked[i].key].val

\* a sorted search was answered from the cache, in an order that is not
\* the order of the cached payload
C20_Witness ==
    \E r \in OneSlot :
        /\ req[r].op = "search"
        /\ req[r].pc = "done"
        /\ req[r].res.status = 200
        /\ req[r].log = <<"cache_hit">>
        /\ req[r].params.sort = "price_low"
        /\ req[r].key \in DOMAIN cacheStore
        /\ LET cached == FilterVinyl(ItemSummaries(cacheStore[req[r].key].val))
               sent == req[r].res.body.items
           IN  /\ Len(sent) = Len(cached)
               /\ Len(sent) >= 2
               /\ sent[1].itemId # cached[1].itemId
               /\ {sent[i].itemId : i \in 1 .. Len(sent)}
                    = {cached[i].itemId : i \in 1 .. Len(cached)}

====
